---------------------------- MODULE Spec2Model ----------------------------
(***************************************************************************)
(* Model of electrum/migration.py (FactWallet): detection of predecessor   *)
(* data (is_factwallet_data), the backup-then-copy executor                *)
(* (perform_migration), the consent dialog (MigrationDialog,               *)
(* run_migration) and the orchestrator (check_for_migration).              *)
(*                                                                         *)
(* A directory tree is a function from paths (sequences of names, relative *)
(* to the tree's root) to entries [kind, data].  kind is "file", "dir",    *)
(* "sock" (a unix socket) or "nostat" (an entry on which os.stat raises,   *)
(* e.g. a dangling symlink).  A path of the filesystem is a record         *)
(* [ex, e]: whether it exists, and its tree.                               *)
(***************************************************************************)
EXTENDS Integers, Sequences, FiniteSets, TLC

\* ------------------------------------------------------------------ bounds
\* nesting depth of sub-directories in the source tree
MaxDepth == 1
\* check_for_migration invocations (or direct calls) per behaviour
MaxRuns == 2
\* injected I/O faults per behaviour
MaxFaults == 1

\* --------------------------------------------------------------- constants
FACT_MAINNET_GENESIS == "79cb40f8075b0e3dc2bc468c5ce2a7acbe0afd36c6c3d3a134ea692edac7de49"
FACT_TESTNET_GENESIS == "550bbf0a444d9f92189f067dd225f5b8a5d92587ebc2e8398d143236072580af"
\* a well-formed hash that is not a FACT genesis (bitcoin's)
OTHER_GENESIS == "000000000019d6689c085ae165831e934ff763ae46a2a6c172b3f1b60a8ce26f"
MARKER == ".migrated_from_electrum"
\* basename of the source directory (shutil.move uses it when dst is a directory)
BASENAME == "electrum_data"

\* ------------------------------------------------------------ JSON values
\* A parsed JSON value: t is its python type after json.load, s the string
\* (t = "str"), m the mapping (t = "dict").
NoMap == [k \in {} |-> 0]
J_none == [t |-> "NoneType", s |-> "", m |-> NoMap]
J_int == [t |-> "int", s |-> "", m |-> NoMap]
J_list == [t |-> "list", s |-> "", m |-> NoMap]
J_str(x) == [t |-> "str", s |-> x, m |-> NoMap]
J_dict(f) == [t |-> "dict", s |-> "", m |-> f]

Hashes == {FACT_MAINNET_GENESIS, FACT_TESTNET_GENESIS, OTHER_GENESIS}
Scalars == {J_none, J_int, J_list} \cup {J_str(h) : h \in Hashes}

\* every mapping from a subset of keys to values
Maps(keys, vals) == UNION {[ks -> vals] : ks \in SUBSET keys}

\* values of blockchain_preferred_block: any scalar, or an object with an
\* optional hash and an optional unrelated field
InnerDicts == {J_dict(f) : f \in Maps({"hash"}, Scalars) \cup
                 {g \in Maps({"hash", "height"}, Scalars) :
                     "height" \in DOMAIN g /\ g["height"] = J_int}}
\* top-level objects, with an optional unrelated field
TopDicts == {J_dict(f) : f \in Maps({"blockchain_preferred_block"}, Scalars \cup InnerDicts) \cup
               {g \in Maps({"blockchain_preferred_block", "auto_connect"}, Scalars \cup InnerDicts) :
                   "auto_connect" \in DOMAIN g /\ g["auto_connect"] = J_int}}

\* The content of a config file: io is what open()/json.load() does with it
\* ("ok": parsed to val; "OSError": open fails; "UnicodeDecodeError": not
\* utf-8; "JSONDecodeError": not JSON).
CfgOk(v) == [io |-> "ok", val |-> v]
CfgBad(x) == [io |-> x, val |-> J_none]
ConfigFiles == {CfgOk(v) : v \in Scalars \cup TopDicts} \cup
               {CfgBad(x) : x \in {"OSError", "UnicodeDecodeError", "JSONDecodeError"}}
\* the configs without unrelated fields
PlainConfigs == {c \in ConfigFiles :
                   c.io = "ok" /\ c.val.t = "dict" =>
                      /\ "auto_connect" \notin DOMAIN c.val.m
                      /\ \A k \in DOMAIN c.val.m :
                            c.val.m[k].t = "dict" => "height" \notin DOMAIN c.val.m[k].m}

\* ------------------------------------------------------------- file trees
NoTree == [p \in {} |-> [kind |-> "file", data |-> ""]]
Absent == [ex |-> FALSE, e |-> NoTree]
Dir(tree) == [ex |-> TRUE, e |-> tree]
Ent(k, d) == [kind |-> k, data |-> d]

\* os.path.exists(path/p): the entry is there and stat succeeds on it
exists(d, p) == d.ex /\ (p = <<>> \/ (p \in DOMAIN d.e /\ d.e[p].kind # "nostat"))

IsPrefix(q, p) == Len(q) <= Len(p) /\ SubSeq(p, 1, Len(q)) = q
Parent(p) == SubSeq(p, 1, Len(p) - 1)
\* os.listdir(dir) in tree e
listdir(e, dir) == {p[Len(p)] : p \in {q \in DOMAIN e : Len(q) = Len(dir) + 1 /\ IsPrefix(dir, q)}}
\* two trees merged, the second winning
Merge(a, b) == [p \in DOMAIN a \cup DOMAIN b |-> IF p \in DOMAIN b THEN b[p] ELSE a[p]]
Restrict(a, ps) == [p \in ps \cap DOMAIN a |-> a[p]]
\* tree e re-rooted under directory name n
Under(n, e) == [p \in {<<n>>} \cup {<<n>> \o q : q \in DOMAIN e} |->
                  IF p = <<n>> THEN Ent("dir", "") ELSE e[SubSeq(p, 2, Len(p))]]

\* --------------------------------------------------- is_factwallet_data
\* dict.get(key, default) on a parsed value; AttributeError on a non-dict
HasGet(v) == v.t = "dict"
Get(v, key, default) == IF key \in DOMAIN v.m THEN v.m[key] ELSE default

\* The exceptions the detector's except clause catches (json.JSONDecodeError, OSError)
DetectCatches(x) == x \in {"JSONDecodeError", "OSError"}

\* what open(config_path) + json.load(f) does: the parsed value, or the
\* exception raised.  Opening a socket or a directory raises OSError.
LoadConfig(d, c) ==
    IF d.e[<<"config">>].kind # "file" THEN [exc |-> "OSError", val |-> J_none]
    ELSE IF c.io # "ok" THEN [exc |-> c.io, val |-> J_none]
    ELSE [exc |-> "none", val |-> c.val]

\* DetectTry with the comparison loosened to "block_hash is a string"
DetectTry_anyhash(d, c) ==
    LET ld == LoadConfig(d, c) IN
    IF ld.exc # "none" THEN ld.exc
    ELSE IF ~HasGet(ld.val) THEN "AttributeError"
    ELSE LET blockchain_preferred_block == Get(ld.val, "blockchain_preferred_block", J_dict(NoMap)) IN
         IF ~HasGet(blockchain_preferred_block) THEN "AttributeError"
         ELSE LET block_hash == Get(blockchain_preferred_block, "hash", J_none) IN
              IF block_hash.t = "str" THEN "True" ELSE "fall"

\* DetectTry with the testnet literal left out of the comparison
DetectTry_mainnetonly(d, c) ==
    LET ld == LoadConfig(d, c) IN
    IF ld.exc # "none" THEN ld.exc
    ELSE IF ~HasGet(ld.val) THEN "AttributeError"
    ELSE LET blockchain_preferred_block == Get(ld.val, "blockchain_preferred_block", J_dict(NoMap)) IN
         IF ~HasGet(blockchain_preferred_block) THEN "AttributeError"
         ELSE LET block_hash == Get(blockchain_preferred_block, "hash", J_none) IN
              IF block_hash \in {J_str(FACT_MAINNET_GENESIS)}
              THEN "True" ELSE "fall"

\* The body of the try block, lines 55-66: "True", "fall" (falls out of the
\* with block) or the name of the exception raised.
DetectTry(d, c) ==
    LET ld == LoadConfig(d, c) IN
    IF ld.exc # "none" THEN ld.exc
    ELSE IF ~HasGet(ld.val) THEN "AttributeError"
    ELSE LET blockchain_preferred_block == Get(ld.val, "blockchain_preferred_block", J_dict(NoMap)) IN
         IF ~HasGet(blockchain_preferred_block) THEN "AttributeError"
         ELSE LET block_hash == Get(blockchain_preferred_block, "hash", J_none) IN
              IF block_hash \in {J_str(FACT_MAINNET_GENESIS), J_str(FACT_TESTNET_GENESIS)}
              THEN "True" ELSE "fall"

\* is_factwallet_data(directory), d the directory and c the content of its
\* config file: "True", "False", or the name of the exception that escapes.
is_factwallet_data(d, c) ==
    IF ~exists(d, <<>>) THEN "False"
    ELSE IF exists(d, <<"config">>)
         THEN LET r == DetectTry(d, c) IN
              IF r = "True" THEN "True"
              ELSE IF r = "fall" \/ DetectCatches(r) THEN "False"
              ELSE r
         ELSE "False"

\* ------------------------------------------------------- ignore_sockets
\* os.stat(file_path).st_mode tested with S_ISSOCK: "raise" when stat fails
StatIsSock(e, p) ==
    IF e[p].kind = "nostat" THEN "raise"
    ELSE IF e[p].kind = "sock" THEN "yes" ELSE "no"

\* ignore_sockets with the test inverted: everything but sockets is skipped
ignore_sockets_inverted(e, dir, files) ==
    {f \in files : StatIsSock(e, Append(dir, f)) = "no"}

\* ignore_sockets also skipping the names whose stat raises
ignore_sockets_lenient(e, dir, files) ==
    {f \in files : StatIsSock(e, Append(dir, f)) \in {"yes", "raise"}}

\* ignore_sockets(dir, files): the names copytree must skip.  A name whose
\* stat raises is not appended.
ignore_sockets(e, dir, files) ==
    {f \in files : StatIsSock(e, Append(dir, f)) = "yes"}

\* ------------------------------------------------------- shutil.copytree
\* copytree(src, dst, symlinks, ignore, dirs_exist_ok) on trees: E the source
\* tree, D the destination tree so far, dir the directory being copied.
\* fail is the set of paths whose copy (file) or creation/listing
\* (directory) hits an I/O error.  The result is the destination tree and
\* whether any error was collected (copytree then raises shutil.Error after
\* copying everything else).
RECURSIVE copytree(_, _, _, _, _, _)
RECURSIVE CopyEntries(_, _, _, _, _, _, _)

\* CopyEntry refusing to overwrite a file that is already in the destination
CopyEntry_nooverwrite(E, D, p, useIgnore, symlinks, fail) ==
    LET ent == E[p] IN
    CASE ent.kind = "dir" -> copytree(E, D, p, useIgnore, symlinks, fail)
      [] ent.kind = "nostat" ->
            \* a dangling symlink: recreated when symlinks=True, else
            \* copy2 follows it and raises FileNotFoundError
            IF symlinks /\ p \notin fail /\ p \notin DOMAIN D
            THEN [tree |-> Merge(D, p :> ent), err |-> FALSE]
            ELSE [tree |-> D, err |-> TRUE]
      [] ent.kind = "sock" ->
            \* open() on a socket raises OSError (ENXIO)
            [tree |-> D, err |-> TRUE]
      [] OTHER ->
            IF p \in fail THEN [tree |-> D, err |-> TRUE]
            ELSE IF p \notin DOMAIN D
                 THEN [tree |-> Merge(D, p :> ent), err |-> FALSE]
            ELSE IF D[p].kind = "dir"
                 THEN \* copy2 onto a directory writes dst/<name>
                      LET q == Append(p, p[Len(p)]) IN
                      IF q \notin DOMAIN D \/ D[q].kind = "file"
                      THEN [tree |-> Merge(D, q :> ent), err |-> FALSE]
                      ELSE [tree |-> D, err |-> TRUE]
            ELSE [tree |-> D, err |-> TRUE]

\* one entry of the loop in _copytree
CopyEntry(E, D, p, useIgnore, symlinks, fail) ==
    LET ent == E[p] IN
    CASE ent.kind = "dir" -> copytree(E, D, p, useIgnore, symlinks, fail)
      [] ent.kind = "nostat" ->
            \* a dangling symlink: recreated when symlinks=True, else
            \* copy2 follows it and raises FileNotFoundError
            IF symlinks /\ p \notin fail /\ p \notin DOMAIN D
            THEN [tree |-> Merge(D, p :> ent), err |-> FALSE]
            ELSE [tree |-> D, err |-> TRUE]
      [] ent.kind = "sock" ->
            \* open() on a socket raises OSError (ENXIO)
            [tree |-> D, err |-> TRUE]
      [] OTHER ->
            IF p \in fail THEN [tree |-> D, err |-> TRUE]
            ELSE IF p \notin DOMAIN D \/ D[p].kind = "file"
                 THEN [tree |-> Merge(D, p :> ent), err |-> FALSE]
            ELSE IF D[p].kind = "dir"
                 THEN \* copy2 onto a directory writes dst/<name>
                      LET q == Append(p, p[Len(p)]) IN
                      IF q \notin DOMAIN D \/ D[q].kind = "file"
                      THEN [tree |-> Merge(D, q :> ent), err |-> FALSE]
                      ELSE [tree |-> D, err |-> TRUE]
            ELSE [tree |-> D, err |-> TRUE]

CopyEntries(E, D, dir, todo, useIgnore, symlinks, fail) ==
    IF todo = {} THEN [tree |-> D, err |-> FALSE]
    ELSE LET n == CHOOSE x \in todo : TRUE
             r == CopyEntry(E, D, Append(dir, n), useIgnore, symlinks, fail)
             rest == CopyEntries(E, r.tree, dir, todo \ {n}, useIgnore, symlinks, fail)
         IN [tree |-> rest.tree, err |-> r.err \/ rest.err]

copytree(E, D, dir, useIgnore, symlinks, fail) ==
    \* os.scandir(src) and os.makedirs(dst, exist_ok=dirs_exist_ok)
    IF dir \in fail \/ (dir # <<>> /\ dir \in DOMAIN D /\ D[dir].kind # "dir")
    THEN [tree |-> D, err |-> TRUE]
    ELSE LET D1 == IF dir = <<>> \/ dir \in DOMAIN D THEN D
                   ELSE Merge(D, dir :> Ent("dir", ""))
             names == listdir(E, dir)
             ignored_names == IF useIgnore THEN ignore_sockets(E, dir, names) ELSE {}
         IN CopyEntries(E, D1, dir, names \ ignored_names, useIgnore, symlinks, fail)

\* copytree with the collected errors dropped instead of raised
CopyTreeTop_noerr(E, D, useIgnore, symlinks, fail, late) ==
    LET r == copytree(E, D, <<>>, useIgnore, symlinks, fail)
    IN [tree |-> r.tree, err |-> FALSE]

\* the top-level call; late: the final copystat(src, dst) fails
CopyTreeTop(E, D, useIgnore, symlinks, fail, late) ==
    LET r == copytree(E, D, <<>>, useIgnore, symlinks, fail)
    IN [tree |-> r.tree, err |-> r.err \/ late]

\* the fault choices of one copytree call, within a budget of n faults
FaultChoices(E, n) ==
    {fc \in [fail : {{}} \cup {{p} : p \in DOMAIN E \cup {<<>>}}, late : BOOLEAN] :
        Cardinality(fc.fail) + (IF fc.late THEN 1 ELSE 0) <= n /\ n <= MaxFaults}
NumFaults(fc) == Cardinality(fc.fail) + (IF fc.late THEN 1 ELSE 0)

\* --------------------------------------------------------- shutil.rmtree
\* What a failing rmtree(src) leaves: it removes children before their
\* directory and raises at the first error, at entry f.  The ancestors of f
\* remain; each sibling subtree hanging off that chain is either already
\* removed or not yet visited (intact); f's own subtree is intact (f could
\* not be listed) or gone (f could not be removed).
OffChain(E, f) == {p \in DOMAIN E : Parent(p) # f /\ IsPrefix(Parent(p), f) /\ ~IsPrefix(p, f)}
RmtreeKept(E, f, intact, keepSub) ==
    {p \in DOMAIN E : \/ IsPrefix(p, f)
                      \/ \E q \in intact : IsPrefix(q, p)
                      \/ keepSub /\ IsPrefix(f, p)}
RmtreeFailures(E) ==
    UNION {{Restrict(E, RmtreeKept(E, f, intact, keepSub)) :
               intact \in SUBSET OffChain(E, f), keepSub \in BOOLEAN} :
           f \in DOMAIN E \cup {<<>>}}

\* ------------------------------------------------------------------ state
VARIABLES
    mode,            \* "app": check_for_migration runs; "direct": perform_migration is called directly; "detect": is_factwallet_data alone
    env_android,     \* 'ANDROID_DATA' in os.environ
    config_options,  \* the argument of check_for_migration
    cfg,             \* content of the file config of the source tree
    source,          \* electrum_dir on disk
    target,          \* factwallet_dir on disk
    backups,         \* backup_dir on disk, one path per dialog (timestamped)
    bk,              \* index of the backup path of the current call
    run,             \* invocations so far
    pc,              \* control point
    state,           \* orchestrator state of the current/last invocation
    outcome,         \* "none", "returned" or "raised": how the invocation ended
    exc,             \* exception in flight / that ended the invocation
    dialog,          \* MigrationDialog fields: result, error, and the code exec_() returns
    pmResult,        \* what perform_migration returned: "none", "True", "False"
    steps,           \* steps of perform_migration completed in the current call
    faults,          \* I/O faults injected so far
    orig,            \* source as it was when perform_migration was called
    fs0,             \* the three paths as they were when the invocation started
    prompted,        \* the dialog was shown in this invocation
    consented,       \* the user clicked "Yes, migrate my wallet"
    acked,           \* the user acknowledged the outcome message box
    detected,        \* result of is_factwallet_data (mode "detect")
    hist             \* one record per returned perform_migration call: run, steps completed, result

vars == <<mode, env_android, config_options, cfg, source, target, backups, bk, run, pc,
          state, outcome, exc, dialog, pmResult, steps, faults, orig, fs0, prompted,
          consented, acked, detected, hist>>

fs == <<source, target, backups>>
envVars == <<mode, env_android, config_options, cfg>>
CurBackup == backups[bk]

\* ------------------------------------------------------------ input sets
SubPath(d) == [i \in 1..d |-> "sub"]
LeafKinds == {"file", "sock", "nostat"}
LeafName(k) == CASE k = "file" -> "default_wallet" [] k = "sock" -> "daemon_rpc_socket" [] OTHER -> "stale_link"

\* A source tree: sub-directories nested to depth, each kind of leaf at one
\* level (place[k]) or nowhere (-1), and a config entry of kind ck ("none":
\* no config).
Tree(place, depth, ck) ==
    LET dirs == {SubPath(i) : i \in 1..depth}
        leaves == {k \in LeafKinds : place[k] >= 0}
        leafPath(k) == Append(SubPath(place[k]), LeafName(k))
    IN [p \in dirs \cup {leafPath(k) : k \in leaves} \cup (IF ck = "none" THEN {} ELSE {<<"config">>}) |->
          IF p = <<"config">> THEN Ent(ck, IF ck = "file" THEN "c" ELSE "")
          ELSE IF p \in dirs THEN Ent("dir", "")
          ELSE LET k == CHOOSE x \in leaves : leafPath(x) = p
               IN Ent(k, IF k = "file" THEN "w" ELSE "")]

Trees(cks) == {Tree(place, depth, ck) :
                 place \in [LeafKinds -> -1..MaxDepth], depth \in 0..MaxDepth, ck \in cks}
SourceTrees(cks) == {t \in Trees(cks) : \A p \in DOMAIN t : p = <<>> \/ Len(p) = 1 \/ Parent(p) \in DOMAIN t}

\* what an existing target or backup path may hold before any call
OldFile == Ent("file", "old")
OldTrees == {NoTree,
             <<"default_wallet">> :> OldFile,
             (<<"sub">> :> Ent("dir", "")) @@ (<<"sub", "default_wallet">> :> OldFile),
             <<"sub">> :> OldFile,
             <<"default_wallet">> :> Ent("dir", ""),
             <<MARKER>> :> OldFile}

OptNone == [none |-> TRUE, portable |-> FALSE, electrum_path |-> FALSE]
ConfigOptions == {OptNone} \cup
                 {[none |-> FALSE, portable |-> p, electrum_path |-> e] : p, e \in BOOLEAN}
NoDialog == [result |-> FALSE, error |-> FALSE, code |-> "none"]

\* ------------------------------------------------------------------- Init
HasConfig(d) == d.ex /\ <<"config">> \in DOMAIN d.e
NoBackups == [i \in 1..MaxRuns |-> Absent]

InitCommon ==
    /\ backups = NoBackups
    /\ bk = 1
    /\ run = 0
    /\ pc = "idle"
    /\ state = "Start"
    /\ outcome = "none"
    /\ exc = "none"
    /\ dialog = NoDialog
    /\ pmResult = "none"
    /\ steps = 0
    /\ faults = 0
    /\ orig = source
    /\ fs0 = fs
    /\ prompted = FALSE
    /\ consented = FALSE
    /\ acked = FALSE
    /\ detected = "none"
    /\ hist = <<>>

\* the application at startup: any environment, any options, any source
Init ==
    /\ mode = "app"
    /\ env_android \in BOOLEAN
    /\ config_options \in ConfigOptions
    /\ source \in {Absent} \cup {Dir(t) : t \in SourceTrees({"none", "file"})}
    /\ cfg \in (IF HasConfig(source) THEN PlainConfigs ELSE {CfgOk(J_none)})
    /\ target \in {Absent, Dir(<<"default_wallet">> :> OldFile)}
    /\ InitCommon

\* --------------------------------------------------- check_for_migration
\* check_for_migration without the target-exists skip
CheckDecision_notarget(opts, android, src, tgt, c) ==
    IF opts.none THEN "AttributeError"
    ELSE IF android THEN "SandboxSkip"
    ELSE IF opts.electrum_path /\ ~opts.portable THEN "CustomPathSkip"
    ELSE IF opts.portable /\ ~opts.electrum_path THEN "KeyError"
    ELSE IF ~exists(src, <<>>) THEN "NoSourceSkip"
    ELSE LET r == is_factwallet_data(src, c) IN
         IF r = "True" THEN "AwaitingUserDecision"
         ELSE IF r = "False" THEN "NoFingerprintMatchSkip"
         ELSE r

\* check_for_migration with the source-exists test inverted
CheckDecision_nosource(opts, android, src, tgt, c) ==
    IF opts.none THEN "AttributeError"
    ELSE IF android THEN "SandboxSkip"
    ELSE IF opts.electrum_path /\ ~opts.portable THEN "CustomPathSkip"
    ELSE IF opts.portable /\ ~opts.electrum_path THEN "KeyError"
    ELSE IF exists(tgt, <<>>) THEN "TargetExistsSkip"
    ELSE IF exists(src, <<>>) THEN "NoSourceSkip"
    ELSE LET r == is_factwallet_data(src, c) IN
         IF r = "True" THEN "AwaitingUserDecision"
         ELSE IF r = "False" THEN "NoFingerprintMatchSkip"
         ELSE r

\* The decision of check_for_migration, lines 244-275: the skip state it
\* ends in, "AwaitingUserDecision" when it calls run_migration, or the name
\* of the exception that escapes it.  electrum_path stands for a present,
\* non-empty 'electrum_path' entry.
CheckDecision(opts, android, src, tgt, c) ==
    IF opts.none THEN "AttributeError"
    ELSE IF android THEN "SandboxSkip"
    ELSE IF opts.electrum_path /\ ~opts.portable THEN "CustomPathSkip"
    ELSE IF opts.portable /\ ~opts.electrum_path THEN "KeyError"
    ELSE IF exists(tgt, <<>>) THEN "TargetExistsSkip"
    ELSE IF ~exists(src, <<>>) THEN "NoSourceSkip"
    ELSE LET r == is_factwallet_data(src, c) IN
         IF r = "True" THEN "AwaitingUserDecision"
         ELSE IF r = "False" THEN "NoFingerprintMatchSkip"
         ELSE r

SkipStates == {"SandboxSkip", "CustomPathSkip", "TargetExistsSkip", "NoSourceSkip",
               "NoFingerprintMatchSkip"}

\* One invocation of check_for_migration up to its return, its raise, or
\* the dialog's exec_().
CheckForMigration ==
    /\ mode = "app" /\ pc = "idle" /\ run < MaxRuns
    /\ LET d == CheckDecision(config_options, env_android, source, target, cfg) IN
       /\ run' = run + 1
       /\ bk' = run + 1
       /\ fs0' = fs
       /\ orig' = source
       /\ dialog' = NoDialog
       /\ pmResult' = "none"
       /\ steps' = 0
       /\ consented' = FALSE
       /\ acked' = FALSE
       /\ IF d = "AwaitingUserDecision"
          THEN /\ pc' = "dialog" /\ state' = d /\ outcome' = "none" /\ exc' = "none"
               /\ prompted' = TRUE
          ELSE IF d \in SkipStates
          THEN /\ pc' = "idle" /\ state' = d /\ outcome' = "returned" /\ exc' = "none"
               /\ prompted' = FALSE
          ELSE /\ pc' = "idle" /\ state' = "Raised" /\ outcome' = "raised" /\ exc' = d
               /\ prompted' = FALSE
    /\ UNCHANGED <<envVars, fs, faults, detected, hist>>

\* ------------------------------------------------------- MigrationDialog
\* skip_button.clicked -> reject (closing the window rejects as well)
UserSkip ==
    /\ pc = "dialog"
    /\ dialog' = [dialog EXCEPT !.code = "Rejected"]
    /\ pc' = "exec_ret"
    /\ UNCHANGED <<envVars, fs, bk, run, state, outcome, exc, pmResult, steps, faults, orig,
                   fs0, prompted, consented, acked, detected, hist>>

\* migrate_button.clicked -> do_migrate, which calls perform_migration
UserMigrate ==
    /\ pc = "dialog"
    /\ consented' = TRUE
    /\ orig' = source
    /\ pc' = "pm_move"
    /\ UNCHANGED <<envVars, fs, bk, run, state, outcome, exc, dialog, pmResult, steps, faults,
                   fs0, prompted, acked, detected, hist>>

\* ----------------------------------------------------- perform_migration
\* what the steps of perform_migration leave alone
callerVars == <<envVars, bk, run, state, outcome, dialog, orig, fs0, prompted, consented,
                acked, detected>>

\* an except clause that catches FileNotFoundError only
PMCatches_narrow(x) == x \in {"FileNotFoundError"}

\* the except clause of perform_migration: "except Exception"
PMCatches(x) == x \in {"Error", "OSError", "FileNotFoundError", "Exception"}

Raise(x) == pc' = "pm_except" /\ exc' = x

\* a move that silently does nothing on a missing source
RenameOutcomes_lenient(src) == IF src.ex THEN {"ok", "OSError"} ELSE {"ok"}

\* os.rename(src, real_dst) inside shutil.move: what it can do.  It raises
\* OSError on a missing source, and may raise it on an existing one.
RenameOutcomes(src) == IF src.ex THEN {"ok", "OSError"} ELSE {"OSError"}

\* the text written to the marker file; datetime.now() makes it differ
\* from one call to the next
MarkerText(n) == "Migrated on " \o ToString(n)

\* PMMove creating the target directory before the move has succeeded
PMMove_eager ==
    /\ pc = "pm_move"
    /\ LET nested == CurBackup.ex IN
       IF nested /\ exists(CurBackup, <<BASENAME>>)
       THEN /\ Raise("Error")
            /\ target' = (IF target.ex THEN target ELSE Dir(NoTree))
            /\ UNCHANGED <<source, backups, steps>>
       ELSE \E renamed \in RenameOutcomes(source) :
               IF renamed = "ok"
               THEN /\ backups' = [backups EXCEPT ![bk] =
                          IF nested THEN Dir(Merge(@.e, Under(BASENAME, source.e)))
                          ELSE Dir(source.e)]
                    /\ source' = Absent
                    /\ steps' = 1
                    /\ pc' = "pm_mkdir"
                    /\ UNCHANGED <<target, exc>>
               ELSE IF source.ex
               THEN /\ pc' = "mv_copy"
                    /\ UNCHANGED <<fs, steps, exc>>
               ELSE /\ Raise("FileNotFoundError")
                    /\ target' = (IF target.ex THEN target ELSE Dir(NoTree))
                    /\ UNCHANGED <<source, backups, steps>>
    /\ UNCHANGED <<callerVars, hist, pmResult, faults>>

\* shutil.move(electrum_dir, backup_dir), up to and including os.rename.
\* If backup_dir is a directory the destination is backup_dir/<basename>,
\* which must not exist.  os.rename either succeeds (the move is done) or
\* raises OSError (another device, ...): then a directory is copied and
\* removed (MoveCopy, MoveRmtree), and a missing source makes copy2 raise.
PMMove ==
    /\ pc = "pm_move"
    /\ LET nested == CurBackup.ex IN
       IF nested /\ exists(CurBackup, <<BASENAME>>)
       THEN /\ Raise("Error")
            /\ UNCHANGED <<fs, steps>>
       ELSE \E renamed \in RenameOutcomes(source) :
               IF renamed = "ok"
               THEN /\ backups' = [backups EXCEPT ![bk] =
                          IF nested THEN Dir(Merge(@.e, Under(BASENAME, source.e)))
                          ELSE Dir(source.e)]
                    /\ source' = Absent
                    /\ steps' = 1
                    /\ pc' = "pm_mkdir"
                    /\ UNCHANGED <<target, exc>>
               ELSE IF source.ex
               THEN /\ pc' = "mv_copy"
                    /\ UNCHANGED <<fs, steps, exc>>
               ELSE /\ Raise("FileNotFoundError")
                    /\ UNCHANGED <<fs, steps>>
    /\ UNCHANGED <<callerVars, hist, pmResult, faults>>

\* shutil.move's fallback, first half: copytree(src, real_dst, symlinks=True)
MoveCopy ==
    /\ pc = "mv_copy"
    /\ \E fc \in FaultChoices(source.e, MaxFaults - faults) :
          LET r == CopyTreeTop(source.e, NoTree, FALSE, TRUE, fc.fail, fc.late)
              nested == CurBackup.ex
          IN /\ backups' = [backups EXCEPT ![bk] =
                   IF <<>> \in fc.fail THEN @
                   ELSE IF nested THEN Dir(Merge(@.e, Under(BASENAME, r.tree)))
                   ELSE Dir(r.tree)]
             /\ faults' = faults + NumFaults(fc)
             /\ IF r.err THEN Raise("Error")
                ELSE pc' = "mv_rmtree" /\ exc' = exc
    /\ UNCHANGED <<callerVars, hist, source, target, pmResult, steps>>

\* shutil.move's fallback, second half: rmtree(src)
MoveRmtree ==
    /\ pc = "mv_rmtree"
    /\ \/ /\ source' = Absent
          /\ steps' = 1
          /\ pc' = "pm_mkdir"
          /\ UNCHANGED <<exc, faults>>
       \/ /\ faults < MaxFaults
          /\ \E kept \in RmtreeFailures(source.e) : source' = Dir(kept)
          /\ faults' = faults + 1
          /\ Raise("OSError")
          /\ UNCHANGED steps
    /\ UNCHANGED <<callerVars, hist, target, backups, pmResult>>

\* util.make_dir(path): "create target directory": the directory is made
\* unless the path exists
make_dir(d) == IF exists(d, <<>>) THEN d ELSE Dir(NoTree)

\* step 2, make_dir(factwallet_dir); creating the directory can fail
PMMakeDir ==
    /\ pc = "pm_mkdir"
    /\ \/ /\ target' = make_dir(target)
          /\ steps' = 2 /\ pc' = "pm_copy"
          /\ UNCHANGED <<exc, faults>>
       \/ /\ make_dir(target) # target
          /\ faults < MaxFaults
          /\ faults' = faults + 1
          /\ Raise("OSError")
          /\ UNCHANGED <<target, steps>>
    /\ UNCHANGED <<callerVars, hist, source, backups, pmResult>>

\* shutil.copytree(backup_dir, factwallet_dir, dirs_exist_ok=True, ignore=ignore_sockets)
PMCopy ==
    /\ pc = "pm_copy"
    /\ \E fc \in FaultChoices(CurBackup.e, MaxFaults - faults) :
          LET r == CopyTreeTop(CurBackup.e, target.e, TRUE, FALSE, fc.fail, fc.late)
          IN /\ target' = Dir(r.tree)
             /\ faults' = faults + NumFaults(fc)
             /\ IF r.err THEN Raise("Error") /\ steps' = steps
                ELSE pc' = "pm_marker" /\ steps' = 3 /\ exc' = exc
    /\ UNCHANGED <<callerVars, hist, source, backups, pmResult>>

\* open(marker_path, 'w') and f.write(...), then return True.  A fault hits
\* open (nothing is created) or write (the file is left truncated).
PMMarker ==
    /\ pc = "pm_marker"
    /\ IF <<MARKER>> \in DOMAIN target.e /\ target.e[<<MARKER>>].kind # "file"
       THEN /\ Raise("OSError")
            /\ UNCHANGED <<target, steps, pmResult, faults, hist>>
       ELSE \/ /\ target' = Dir(Merge(target.e, <<MARKER>> :> Ent("file", MarkerText(run))))
               /\ steps' = 4
               /\ pmResult' = "True"
               /\ pc' = "pm_ret"
               /\ hist' = Append(hist, [run |-> run, steps |-> 4, result |-> "True"])
               /\ UNCHANGED <<exc, faults>>
            \/ /\ faults < MaxFaults
               /\ faults' = faults + 1
               /\ \E created \in BOOLEAN :
                     target' = IF created
                               THEN Dir(Merge(target.e, <<MARKER>> :> Ent("file", "")))
                               ELSE target
               /\ Raise("OSError")
               /\ UNCHANGED <<steps, pmResult, hist>>
    /\ UNCHANGED <<callerVars, source, backups>>

\* an except clause that also removes the backup before returning False
PMExcept_cleanup ==
    /\ pc = "pm_except"
    /\ pc' = "pm_ret"
    /\ pmResult' = "False" /\ exc' = "none"
    /\ hist' = Append(hist, [run |-> run, steps |-> steps, result |-> "False"])
    /\ backups' = [backups EXCEPT ![bk] = Absent]
    /\ UNCHANGED <<callerVars, source, target, steps, faults>>

\* an except clause that removes the target directory before returning False
PMExcept_rollback ==
    /\ pc = "pm_except"
    /\ pc' = "pm_ret"
    /\ pmResult' = "False" /\ exc' = "none"
    /\ hist' = Append(hist, [run |-> run, steps |-> steps, result |-> "False"])
    /\ target' = Absent
    /\ UNCHANGED <<callerVars, source, backups, steps, faults>>

\* except Exception as e: log and return False
PMExcept ==
    /\ pc = "pm_except"
    /\ pc' = "pm_ret"
    /\ IF PMCatches(exc)
       THEN pmResult' = "False" /\ exc' = "none"
       ELSE pmResult' = "raised" /\ exc' = exc
    /\ hist' = Append(hist, [run |-> run, steps |-> steps,
                             result |-> IF PMCatches(exc) THEN "False" ELSE "raised"])
    /\ UNCHANGED <<callerVars, fs, steps, faults>>

\* ----------------------------------------------------------- do_migrate
\* do_migrate with message boxes that do not block: accept() or reject()
\* follows without the user's click
DoMigrate_nonmodal ==
    /\ mode = "app" /\ pc = "pm_ret" /\ pmResult \in {"True", "False"}
    /\ IF pmResult = "True"
       THEN dialog' = [dialog EXCEPT !.result = TRUE] /\ pc' = "info_acked"
       ELSE dialog' = dialog /\ pc' = "critical_acked"
    /\ UNCHANGED <<envVars, fs, bk, run, state, outcome, exc, pmResult, steps, faults, orig,
                   fs0, prompted, consented, acked, detected, hist>>

\* do_migrate after perform_migration returned: set result and show the
\* information box, or show the critical box (both modal)
DoMigrate ==
    /\ mode = "app" /\ pc = "pm_ret" /\ pmResult \in {"True", "False"}
    /\ IF pmResult = "True"
       THEN dialog' = [dialog EXCEPT !.result = TRUE] /\ pc' = "msg_info"
       ELSE dialog' = dialog /\ pc' = "msg_critical"
    /\ UNCHANGED <<envVars, fs, bk, run, state, outcome, exc, pmResult, steps, faults, orig,
                   fs0, prompted, consented, acked, detected, hist>>

\* QMessageBox.information returns: the user clicked OK on "Migration Complete"
AckInfo ==
    /\ pc = "msg_info"
    /\ acked' = TRUE
    /\ pc' = "info_acked"
    /\ UNCHANGED <<envVars, fs, bk, run, state, outcome, exc, dialog, pmResult, steps, faults,
                   orig, fs0, prompted, consented, detected, hist>>

\* self.accept(): exec_() returns Accepted
DialogAccept ==
    /\ pc = "info_acked"
    /\ dialog' = [dialog EXCEPT !.code = "Accepted"]
    /\ pc' = "exec_ret"
    /\ UNCHANGED <<envVars, fs, bk, run, state, outcome, exc, pmResult, steps, faults, orig,
                   fs0, prompted, consented, acked, detected, hist>>

\* QMessageBox.critical returns: the user clicked OK on "Migration Failed"
AckCritical ==
    /\ pc = "msg_critical"
    /\ acked' = TRUE
    /\ pc' = "critical_acked"
    /\ UNCHANGED <<envVars, fs, bk, run, state, outcome, exc, dialog, pmResult, steps, faults,
                   orig, fs0, prompted, consented, detected, hist>>

\* self.error = True; self.reject(): exec_() returns Rejected
DialogReject ==
    /\ pc = "critical_acked"
    /\ dialog' = [dialog EXCEPT !.error = TRUE, !.code = "Rejected"]
    /\ pc' = "exec_ret"
    /\ UNCHANGED <<envVars, fs, bk, run, state, outcome, exc, pmResult, steps, faults, orig,
                   fs0, prompted, consented, acked, detected, hist>>

\* --------------------------------------------------------- run_migration
\* run_migration that logs the dialog's error and returns True
RunMigrationOutcome_swallow(dlg) ==
    LET result == dlg.code = "Accepted" /\ dlg.result IN
    IF dlg.error
    THEN [state |-> "MigrationFailed", outcome |-> "returned", exc |-> "none"]
    ELSE IF result
    THEN [state |-> "Migrated", outcome |-> "returned", exc |-> "none"]
    ELSE [state |-> "UserSkipped", outcome |-> "returned", exc |-> "none"]

\* run_migration that raises whenever the dialog was not accepted
RunMigrationOutcome_strict(dlg) ==
    LET result == dlg.code = "Accepted" /\ dlg.result IN
    IF dlg.error \/ ~result
    THEN [state |-> "MigrationFailed", outcome |-> "raised", exc |-> "Exception"]
    ELSE [state |-> "Migrated", outcome |-> "returned", exc |-> "none"]

\* run_migration from the return of dialog.exec_() on, lines 217-230, and
\* the end of check_for_migration (line 277, no handler): the final state
\* of the invocation, how it ends and the exception it ends with.
RunMigrationOutcome(dlg) ==
    LET result == dlg.code = "Accepted" /\ dlg.result IN
    IF dlg.error
    THEN \* raise Exception(...); except Exception as e: log, raise e
         [state |-> "MigrationFailed", outcome |-> "raised", exc |-> "Exception"]
    ELSE IF result
    THEN [state |-> "Migrated", outcome |-> "returned", exc |-> "none"]
    ELSE [state |-> "UserSkipped", outcome |-> "returned", exc |-> "none"]

RunMigrationReturn ==
    /\ pc = "exec_ret"
    /\ LET o == RunMigrationOutcome(dialog) IN
       /\ state' = o.state
       /\ outcome' = o.outcome
       /\ exc' = o.exc
    /\ pc' = "idle"
    /\ UNCHANGED <<envVars, fs, bk, run, dialog, pmResult, steps, faults, orig, fs0, prompted,
                   consented, acked, detected, hist>>

Next ==
    \/ CheckForMigration
    \/ UserSkip
    \/ UserMigrate
    \/ PMMove
    \/ MoveCopy
    \/ MoveRmtree
    \/ PMMakeDir
    \/ PMCopy
    \/ PMMarker
    \/ PMExcept
    \/ DoMigrate
    \/ AckInfo
    \/ DialogAccept
    \/ AckCritical
    \/ DialogReject
    \/ RunMigrationReturn

Spec == Init /\ [][Next]_vars

\* ------------------------------------- perform_migration called directly
\* perform_migration(source, backup, target) called with the same three
\* paths, up to MaxRuns times, on any source and any pre-existing target
InitDirect ==
    /\ mode = "direct"
    /\ env_android = FALSE
    /\ config_options = [none |-> FALSE, portable |-> FALSE, electrum_path |-> FALSE]
    /\ source \in {Absent} \cup {Dir(t) : t \in SourceTrees({"none", "file"})}
    /\ cfg = CfgOk(J_none)
    /\ target \in {Absent} \cup {Dir(t) : t \in OldTrees}
    /\ InitCommon

DirectCall ==
    /\ mode = "direct" /\ pc \in {"idle", "pm_ret"} /\ run < MaxRuns
    /\ run' = run + 1
    /\ orig' = source
    /\ fs0' = fs
    /\ steps' = 0
    /\ pmResult' = "none"
    /\ pc' = "pm_move"
    /\ UNCHANGED <<envVars, fs, bk, state, outcome, exc, dialog, faults, prompted, consented,
                   acked, detected, hist>>

NextDirect ==
    \/ DirectCall
    \/ PMMove
    \/ MoveCopy
    \/ MoveRmtree
    \/ PMMakeDir
    \/ PMCopy
    \/ PMMarker
    \/ PMExcept

SpecDirect == InitDirect /\ [][NextDirect]_vars

\* ------------------------------------------- is_factwallet_data alone
\* is_factwallet_data applied to any directory: absent, without config,
\* with a config entry of any kind and a config file of any content
InitDetect ==
    /\ mode = "detect"
    /\ env_android = FALSE
    /\ config_options = [none |-> FALSE, portable |-> FALSE, electrum_path |-> FALSE]
    /\ source \in {Absent} \cup
                  {Dir(Tree(place, 0, ck)) :
                      place \in [LeafKinds -> {-1}] \cup {[k \in LeafKinds |-> IF k = "file" THEN 0 ELSE -1]},
                      ck \in {"none", "file", "dir", "sock", "nostat"}}
    /\ cfg \in (IF HasConfig(source) /\ source.e[<<"config">>].kind = "file"
                THEN ConfigFiles ELSE {CfgOk(J_none)})
    /\ target = Absent
    /\ InitCommon

Detect ==
    /\ mode = "detect" /\ pc = "idle"
    /\ detected' = is_factwallet_data(source, cfg)
    /\ pc' = "detected"
    /\ UNCHANGED <<envVars, fs, bk, run, state, outcome, exc, dialog, pmResult, steps, faults,
                   orig, fs0, prompted, consented, acked, hist>>

NextDetect == Detect

SpecDetect == InitDetect /\ [][NextDetect]_vars

\* ======================================================== properties
\* directory d holds every entry of tree t, unchanged
Holds(d, t) == d.ex /\ \A p \in DOMAIN t : p \in DOMAIN d.e /\ d.e[p] = t[p]
FilePaths(t) == {p \in DOMAIN t : t[p].kind = "file"}
Files(t) == Restrict(t, FilePaths(t))
KindsIn(t) == {t[p].kind : p \in DOMAIN t}
\* the fingerprint of directory d with config content c: the string at
\* blockchain_preferred_block.hash of a readable JSON object, "" if there is none
Fingerprint(d, c) ==
    IF /\ d.ex /\ <<"config">> \in DOMAIN d.e /\ d.e[<<"config">>].kind = "file"
       /\ c.io = "ok" /\ c.val.t = "dict"
       /\ "blockchain_preferred_block" \in DOMAIN c.val.m
       /\ c.val.m["blockchain_preferred_block"].t = "dict"
       /\ "hash" \in DOMAIN c.val.m["blockchain_preferred_block"].m
       /\ c.val.m["blockchain_preferred_block"].m["hash"].t = "str"
    THEN c.val.m["blockchain_preferred_block"].m["hash"].s
    ELSE ""
KnownGenesis == {"79cb40f8075b0e3dc2bc468c5ce2a7acbe0afd36c6c3d3a134ea692edac7de49",
                 "550bbf0a444d9f92189f067dd225f5b8a5d92587ebc2e8398d143236072580af"}

\* C1 -- data safety under partial failure: from the call of
\* perform_migration on, whichever step fails, every entry of the original
\* source is at the source path or at the backup path, and at the backup
\* path once step 1 has completed; once step 1 has completed no step and
\* no failure path changes the backup, and the backups of earlier calls are
\* never changed.
C1_Inv ==
    consented =>
       /\ Holds(source, orig.e) \/ Holds(CurBackup, orig.e)
       /\ pc = "pm_move" => Holds(source, orig.e)
       /\ steps >= 1 => Holds(CurBackup, orig.e)
C1_Frozen == \A i \in 1..MaxRuns : (i # bk \/ steps >= 1) => backups'[i] = backups[i]
C1_DataSafety == [](C1_Inv) /\ [][C1_Frozen]_vars
\* a step after the move failed; the backup holds the whole original source
C1_Witness ==
    /\ consented /\ pmResult = "False" /\ steps >= 1 /\ ~source.ex
    /\ FilePaths(orig.e) # {} /\ Holds(CurBackup, orig.e)

\* C2 -- after a successful perform_migration on a source of regular files
\* and sockets at any depth: the backup exists with the same regular files
\* as the original source, the target holds exactly those regular files
\* plus the marker and no socket, and the source path is gone.
C2_SuccessPostcondition ==
    (consented /\ pmResult = "True" /\ "nostat" \notin KindsIn(orig.e)) =>
       /\ CurBackup.ex /\ Files(CurBackup.e) = Files(orig.e)
       /\ FilePaths(target.e) = FilePaths(orig.e) \cup {<<MARKER>>}
       /\ \A p \in FilePaths(orig.e) : target.e[p] = orig.e[p]
       /\ "sock" \notin KindsIn(target.e)
       /\ ~source.ex
\* success on a source with a nested socket and a nested regular file
C2_Witness ==
    /\ consented /\ pmResult = "True"
    /\ \E p, q \in DOMAIN orig.e :
          /\ Len(p) >= 2 /\ orig.e[p].kind = "sock"
          /\ Len(q) >= 2 /\ orig.e[q].kind = "file"

\* C3 -- perform_migration never raises: when it has returned, its result
\* is True or False, no exception is in flight, and the result is True
\* exactly when all four steps completed.
C3_ReturnsBoolean ==
    pc = "pm_ret" =>
       /\ pmResult \in {"True", "False"}
       /\ exc = "none"
       /\ pmResult = "True" <=> steps = 4
\* the copy (step 3) failed and the call returned False
C3_Witness == pc = "pm_ret" /\ pmResult = "False" /\ steps = 2

\* C4 -- a second call with the same three paths, after the source was
\* moved away, changes nothing on disk, fails at step 1 and returns False.
C4_SecondCallFails ==
    (mode = "direct" /\ run >= 2 /\ ~orig.ex /\ pc # "idle") =>
       /\ fs = fs0
       /\ pc = "pm_ret" => (pmResult = "False" /\ steps = 0)
\* the second call returned after a first call that succeeded
C4_Witness ==
    /\ mode = "direct" /\ run = 2 /\ pc = "pm_ret" /\ ~orig.ex
    /\ CurBackup.ex /\ target.ex /\ <<MARKER>> \in DOMAIN target.e
    /\ target.e[<<MARKER>>].data = MarkerText(1)

\* C5 -- after consent, a failure of perform_migration ends the invocation
\* of check_for_migration in MigrationFailed with a raised exception.
C5_FailureIsRaised ==
    (pc = "idle" /\ consented /\ pmResult = "False") =>
       (outcome = "raised" /\ state = "MigrationFailed" /\ exc = "Exception")
\* an invocation that ended after consent and a failed migration
C5_Witness == pc = "idle" /\ consented /\ pmResult = "False" /\ acked

\* C6 -- when the target exists at the start of an invocation, the
\* invocation changes nothing on disk and shows no prompt, whatever the
\* source holds.
C6_TargetExistsNoop ==
    (run >= 1 /\ fs0[2].ex) => (fs = fs0 /\ ~prompted /\ pc = "idle")
\* the target-exists skip taken although the source is predecessor data
C6_Witness ==
    /\ run >= 1 /\ fs0[2].ex /\ state = "TargetExistsSkip"
    /\ Fingerprint(source, cfg) \in KnownGenesis

\* C7 -- when the user declines at the prompt, perform_migration is not
\* called: nothing on disk changes, the source stays, no backup and no
\* target exist, and the invocation returns normally as UserSkipped.
C7_DeclineNoop ==
    (prompted /\ ~consented /\ dialog.code = "Rejected") =>
       /\ fs = fs0 /\ source.ex /\ ~target.ex /\ ~CurBackup.ex
       /\ pmResult = "none" /\ steps = 0
       /\ pc = "idle" => (outcome = "returned" /\ state = "UserSkipped")
\* an invocation that ended after the user declined
C7_Witness ==
    /\ prompted /\ ~consented /\ dialog.code = "Rejected" /\ pc = "idle"
    /\ state = "UserSkipped"

\* C8 -- when the source exists and its fingerprint is not a known genesis
\* hash, the invocation shows no prompt and changes nothing on disk.
C8_UnrecognisedUntouched ==
    (run >= 1 /\ fs0[1].ex /\ Fingerprint(fs0[1], cfg) \notin KnownGenesis) =>
       (~prompted /\ fs = fs0 /\ pc = "idle")
\* an invocation on a source whose config names another chain's genesis
C8_Witness ==
    /\ run >= 1 /\ fs0[1].ex /\ ~fs0[2].ex
    /\ Fingerprint(fs0[1], cfg) = OTHER_GENESIS
    /\ state = "NoFingerprintMatchSkip"

\* C9 -- happy path: no sandbox marker, options that resolve the default
\* or the portable paths, target absent, source of regular files with a
\* mainnet config and a wallet file: the first invocation shows the prompt
\* and, after consent and without I/O fault, ends Migrated with the wallet
\* in the backup, the wallet and the marker in the target, and no source.
C9_Pre ==
    /\ ~env_android /\ ~config_options.none
    /\ config_options.portable = config_options.electrum_path
    /\ ~fs0[2].ex /\ fs0[1].ex
    /\ Fingerprint(fs0[1], cfg) = "79cb40f8075b0e3dc2bc468c5ce2a7acbe0afd36c6c3d3a134ea692edac7de49"
    /\ KindsIn(fs0[1].e) \subseteq {"file", "dir"}
    /\ FilePaths(fs0[1].e) # {<<"config">>}
C9_HappyPath ==
    (run = 1 /\ C9_Pre) =>
       /\ prompted
       /\ (pc = "idle" /\ consented /\ faults = 0) =>
             /\ state = "Migrated" /\ outcome = "returned"
             /\ ~source.ex
             /\ CurBackup.ex /\ Files(CurBackup.e) = Files(fs0[1].e)
             /\ target.ex
             /\ Files(target.e) = Merge(Files(fs0[1].e), <<MARKER>> :> Ent("file", MarkerText(1)))
\* the first invocation ended Migrated on the happy path
C9_Witness ==
    /\ run = 1 /\ C9_Pre /\ pc = "idle" /\ consented /\ faults = 0
    /\ state = "Migrated" /\ <<"default_wallet">> \in DOMAIN target.e

\* C10 -- is_factwallet_data returns False, and does not raise, for every
\* directory that is absent, has no config, has an unreadable or non-JSON
\* config, or has a config without a known genesis hash at
\* blockchain_preferred_block.hash.
C10_FalseNeverRaises ==
    (pc = "detected" /\ Fingerprint(source, cfg) \notin KnownGenesis) => detected = "False"

\* C11 -- is_factwallet_data returns True if and only if the directory's
\* config is a readable JSON object whose blockchain_preferred_block.hash
\* is the mainnet or the testnet genesis literal; no other field of the
\* config, at the top level or next to the hash, changes the result.
C11_TrueIffKnownGenesis ==
    pc = "detected" => (detected = "True" <=> Fingerprint(source, cfg) \in KnownGenesis)
\* True was returned for a testnet config carrying unrelated fields at both levels
C11_Witness ==
    /\ pc = "detected" /\ detected = "True"
    /\ Fingerprint(source, cfg) = "550bbf0a444d9f92189f067dd225f5b8a5d92587ebc2e8398d143236072580af"
    /\ "auto_connect" \in DOMAIN cfg.val.m
    /\ "height" \in DOMAIN cfg.val.m["blockchain_preferred_block"].m

\* C12 -- for every accepted config_options value, the declared default
\* None included: when ANDROID_DATA is set, or when electrum_path is given
\* without portable, check_for_migration returns normally in the sandbox
\* or custom-path skip, has changed nothing on disk and has not prompted.
C12_EarlySkipsReturn ==
    (run >= 1 /\ (env_android \/ (config_options.electrum_path /\ ~config_options.portable))) =>
       /\ outcome = "returned"
       /\ state \in {"SandboxSkip", "CustomPathSkip"}
       /\ fs = fs0
       /\ ~prompted

\* the positions inside perform_migration after shutil.move was called
AfterMoveCall == {"mv_copy", "mv_rmtree", "pm_mkdir", "pm_copy", "pm_marker", "pm_except"}
\* the calls of shutil.move(source, backup) so far: one per returned call
\* of perform_migration, plus the call in progress
MovesExecuted == Len(hist) + (IF pc \in AfterMoveCall THEN 1 ELSE 0)
\* the moves that completed (step 1 done: source gone, backup in place)
MovesCompleted ==
    Cardinality({i \in 1..Len(hist) : hist[i].steps >= 1})
       + (IF pc \in AfterMoveCall /\ steps >= 1 THEN 1 ELSE 0)
\* an earlier invocation migrated successfully
MigratedBefore == \E i \in 1..Len(hist) : hist[i].run < run /\ hist[i].result = "True"
\* the invocation ended in the target-exists skip: returned, no prompt,
\* nothing changed on disk
EndedTargetExists ==
    /\ pc = "idle" /\ state = "TargetExistsSkip" /\ outcome = "returned"
    /\ ~prompted /\ fs = fs0

\* C13 as stated -- over any sequence of invocations the move of source to
\* backup is executed at most once, and after a successful migration every
\* later invocation ends in the target-exists skip with no prompt and no
\* filesystem change.
C13_MoveExecutedOnce ==
    /\ MovesExecuted <= 1
    /\ MigratedBefore => EndedTargetExists

\* C13 amended -- the move of source to backup completes at most once (a
\* move that failed and left source in place is attempted again by a later
\* invocation, to a new backup path), and after a successful migration
\* every later invocation ends in the target-exists skip with no prompt
\* and no filesystem change.
C13_MoveCompletesOnce ==
    /\ MovesCompleted <= 1
    /\ MigratedBefore => EndedTargetExists
\* a second invocation after a successful migration ended in the skip
C13_Witness ==
    /\ run = 2 /\ MigratedBefore /\ EndedTargetExists
    /\ MovesCompleted = 1

\* C14 -- step ordering in perform_migration: as long as the move of
\* source to backup has not completed, the target is exactly what it was
\* when the call began; if step 1 fails the call returns with the target
\* not created and nothing written into it.
C14_TargetAfterMove ==
    (run >= 1 /\ pc \in AfterMoveCall \cup {"pm_move", "pm_ret"} /\ steps = 0) =>
       target = fs0[2]
\* step 1 failed on an existing source and the absent target was not created
C14_Witness ==
    /\ pc = "pm_ret" /\ steps = 0 /\ pmResult = "False"
    /\ fs0[1].ex /\ ~fs0[2].ex /\ ~target.ex

\* the marker file is in the target
MarkerIn(d) == d.ex /\ <<MARKER>> \in DOMAIN d.e
\* every entry of backup b that is not a socket is in directory d, unchanged
CopiedFrom(b, d) ==
    /\ b.ex /\ d.ex
    /\ \A p \in DOMAIN b.e : b.e[p].kind # "sock" => (p \in DOMAIN d.e /\ d.e[p] = b.e[p])

\* C15 -- in every reachable state, if the marker .migrated_from_electrum
\* is in the target then the copy step completed: there is a backup whose
\* every non-socket entry is in the target; and once the copy step has
\* failed there is no marker in the target.
C15_MarkerImpliesCopied ==
    /\ MarkerIn(target) => \E i \in DOMAIN backups : CopiedFrom(backups[i], target)
    /\ (steps = 2 /\ pc # "pm_copy") => ~MarkerIn(target)
\* the marker was written after a copy that skipped a socket and copied a file
C15_Witness ==
    /\ MarkerIn(target) /\ pmResult = "True"
    /\ "sock" \in KindsIn(CurBackup.e)
    /\ <<"default_wallet">> \in DOMAIN target.e
    /\ <<"daemon_rpc_socket">> \notin DOMAIN target.e

\* perform_migration has returned from a call that found the target
\* existing and not empty, whose move completed, with no I/O fault and no
\* unreadable entry in the backup
C16_Pre ==
    /\ pc = "pm_ret" /\ steps >= 1 /\ faults = 0
    /\ fs0[2].ex /\ DOMAIN fs0[2].e # {}
    /\ "nostat" \notin KindsIn(CurBackup.e)
\* the old target has, at a path of the backup, an entry of another kind
KindMismatch ==
    \E p \in DOMAIN CurBackup.e \cap DOMAIN fs0[2].e : CurBackup.e[p].kind # fs0[2].e[p].kind
\* the old target has a non-directory where the backup has a directory
DirOverNonDir ==
    \E p \in DOMAIN CurBackup.e \cap DOMAIN fs0[2].e :
        CurBackup.e[p].kind = "dir" /\ fs0[2].e[p].kind # "dir"

\* C16 as stated -- steps 2 to 4 tolerate a pre-existing target: when the
\* target exists and holds entries, entries named like entries of the
\* backup included, directory creation and the copy do not fail for that
\* reason and the call returns True.
C16_ToleratesAnyTarget ==
    C16_Pre => pmResult = "True"

\* C16 amended -- steps 2 to 4 tolerate a pre-existing target whose
\* entries named like entries of the backup are of the same kind (a file
\* is overwritten, a directory is merged into): the call returns True;
\* where the target has a non-directory at the path of a directory of the
\* backup the copy fails and the call returns False.
C16_ToleratesSameKind ==
    /\ (C16_Pre /\ ~KindMismatch) => pmResult = "True"
    /\ (C16_Pre /\ DirOverNonDir) => pmResult = "False"
\* the call returned True after overwriting the old wallet file of the target
C16_Witness ==
    /\ C16_Pre /\ pmResult = "True"
    /\ <<"default_wallet">> \in DOMAIN fs0[2].e /\ fs0[2].e[<<"default_wallet">>] = OldFile
    /\ <<"default_wallet">> \in DOMAIN CurBackup.e
    /\ target.e[<<"default_wallet">>] = CurBackup.e[<<"default_wallet">>]

\* perform_migration has returned from a call whose copy step ran on a
\* backup holding an entry on which stat fails
C17_Pre ==
    /\ pc = "pm_ret" /\ steps >= 2
    /\ "nostat" \in KindsIn(CurBackup.e)
\* no entry of the backup on which stat fails is in the target
UnclassifiedAbsent ==
    \A p \in DOMAIN CurBackup.e : CurBackup.e[p].kind = "nostat" => p \notin DOMAIN target.e

\* C17 as stated -- an entry of the backup whose stat fails is skipped
\* like a socket: it is not copied into the target and it does not make
\* perform_migration fail.
C17_UnclassifiedSkipped ==
    (C17_Pre /\ faults = 0) => (pmResult = "True" /\ UnclassifiedAbsent)

\* C17 amended -- an entry of the backup whose stat fails is not put on
\* the ignore list; copytree tries to copy it, that copy fails, the entry
\* is not in the target, and perform_migration returns False without
\* writing the marker.
C17_UnclassifiedFailsCopy ==
    C17_Pre => (pmResult = "False" /\ steps = 2 /\ UnclassifiedAbsent /\ ~MarkerIn(target))
\* the call returned False on a backup with a dangling link, having copied the wallet file
C17_Witness ==
    /\ C17_Pre /\ faults = 0 /\ pmResult = "False"
    /\ <<"stale_link">> \in DOMAIN CurBackup.e
    /\ <<"default_wallet">> \in DOMAIN target.e

\* an earlier invocation's perform_migration failed after creating the target
FailedAfterTarget ==
    \E i \in 1..Len(hist) : hist[i].run < run /\ hist[i].result = "False" /\ hist[i].steps >= 2

\* C18 -- a failed migration is sticky: after perform_migration failed in
\* step 3 or 4, with the target created, every later invocation of
\* check_for_migration ends in the target-exists skip: it does not prompt,
\* and it leaves source, target (copy not completed, marker not written)
\* and backups as the failure left them.
C18_FailureIsSticky ==
    FailedAfterTarget => EndedTargetExists
\* a second invocation skipped on the target left by a failed copy: no
\* marker, the backup still in place
C18_Witness ==
    /\ run = 2 /\ FailedAfterTarget /\ EndedTargetExists
    /\ ~MarkerIn(target) /\ backups[1].ex
    /\ <<"default_wallet">> \in DOMAIN backups[1].e
    /\ <<"default_wallet">> \notin DOMAIN target.e

\* C19 -- after the user consented, the dialog is neither accepted nor
\* rejected, the error flag is not set and check_for_migration does not
\* get past exec_() before the user has acknowledged the outcome message.
C19_AckBeforeClose ==
    (consented /\ (dialog.code # "none" \/ dialog.error \/ pc \in {"exec_ret", "idle"})) => acked
\* the failure message was acknowledged, then the flag set and the dialog rejected
C19_Witness ==
    /\ consented /\ acked /\ pc = "exec_ret"
    /\ dialog.error /\ dialog.code = "Rejected" /\ pmResult = "False"

=============================================================================
